---------------------------- MODULE Spec2Model ----------------------------
(***************************************************************************)
(* A model of the library code of node-express-boilerplate:                *)
(*   - the named-parameter rewriting of lib/pgsql (PgSQLClient.formatQuery)*)
(*     and lib/mysql (MySQLClient.customQueryFormat),                      *)
(*   - the statement validation and the query()/close() life cycle of the  *)
(*     two SQL clients,                                                    *)
(*   - the token service of lib/jwt (JWTClient),                           *)
(*   - the Express application of src/index.js with utils/asyncHandler,    *)
(*   - the error handlers: the error middleware with utils/apiResponse and *)
(*     the handler src/index.js mounts,                                    *)
(*   - the process handlers of src/server.js with lib/shutdown.            *)
(* Strings are sequences of one-character strings, so that the regular     *)
(* expressions of the source are modelled by what they match.              *)
(***************************************************************************)
EXTENDS Integers, Sequences, FiniteSets, TLC

(***************************************************************************)
(* Bounds of the model.                                                    *)
(***************************************************************************)
\* longest query template drawn for the rewriting functions
MaxLen == 6

\* calls of one SQL client that may be in flight (awaiting the driver) at once
MaxCalls == 2

\* connect() invocations on one driver connection that the model follows
MaxConnects == 2

\* half-second steps the clock takes while tokens are issued and verified
MaxTicks == 4

\* tokens one JWTClient issues
MaxIssues == 2

(***************************************************************************)
(* Characters.  /\w/ is [A-Za-z0-9_]; the templates are drawn over         *)
(* TemplateChars, the outputs also hold digits.                            *)
(***************************************************************************)
Digits == <<"0", "1", "2", "3", "4", "5", "6", "7", "8", "9">>

DigitChars == {Digits[i] : i \in 1..10}

\* "a", "b": identifiers a caller binds; "p": stands for the name of a
\* property every object literal inherits from Object.prototype
\* (constructor, toString, valueOf, ...) spelled with one character.
LetterChars == {"a", "b", "p"}

IsWordChar(ch) == ch \in LetterChars \cup DigitChars \cup {"_"}

TemplateChars == {":", "a", "b", "p"}

Templates == UNION {[1..n -> TemplateChars] : n \in 0..MaxLen}

(***************************************************************************)
(* JavaScript values passed as parameters.                                 *)
(***************************************************************************)
NumV(n) == [t |-> "number", v |-> n]

\* the function object found on Object.prototype under an inherited name
ProtoFnV == [t |-> "function", v |-> 0]

ParamValues == {NumV(1), NumV(2)}

OwnKeyPool == {<<"a">>, <<"b">>}

\* names every plain object inherits (Object.prototype)
ProtoKeys == {<<"p">>}

\* the params argument: undefined (absent), or an object literal with own keys
Absent == [absent |-> TRUE, own |-> [k \in {} |-> NumV(0)]]

Obj(f) == [absent |-> FALSE, own |-> f]

ParamSets == {Absent} \cup {Obj(f) : f \in UNION {[K -> ParamValues] : K \in SUBSET OwnKeyPool}}

OwnKeys(values) == DOMAIN values.own

\* !values
Falsy(values) == values.absent

\* key in values: own or inherited through the prototype chain
HasProperty(values, key) == key \in OwnKeys(values) \cup ProtoKeys

\* Object.prototype.hasOwnProperty.call(values, key)
HasOwnProperty(values, key) == key \in OwnKeys(values)

\* values[key]
Get(values, key) ==
    IF key \in OwnKeys(values) THEN values.own[key]
    ELSE IF key \in ProtoKeys THEN ProtoFnV
    ELSE [t |-> "undefined", v |-> 0]

(***************************************************************************)
(* Number to decimal text, as a template literal or String() renders it.   *)
(***************************************************************************)
RECURSIVE ToDecimal(_)
ToDecimal(n) ==
    IF n < 10 THEN <<Digits[n + 1]>>
    ELSE ToDecimal(n \div 10) \o <<Digits[(n % 10) + 1]>>

(***************************************************************************)
(* The regular expression /:(\w+)/g of both clients.                       *)
(***************************************************************************)
\* a match starts at i: a colon followed by at least one word character
MatchAt(query, i) ==
    /\ i < Len(query)
    /\ query[i] = ":"
    /\ IsWordChar(query[i + 1])

\* \w+ is greedy: the index of the last character of the run of word
\* characters that starts at i + 1
RECURSIVE WordEnd(_, _)
WordEnd(query, j) ==
    IF j < Len(query) /\ IsWordChar(query[j + 1]) THEN WordEnd(query, j + 1) ELSE j

MatchEnd(query, i) == WordEnd(query, i + 1)

\* keys.indexOf(key): zero-based, -1 when absent
IndexOf(keys, key) ==
    IF \E j \in 1..Len(keys) : keys[j] = key
    THEN (CHOOSE j \in 1..Len(keys) : keys[j] = key /\ \A h \in 1..(j - 1) : keys[h] # key) - 1
    ELSE -1

(***************************************************************************)
(* PgSQLClient.formatQuery                                                 *)
(***************************************************************************)
\* a faulty variant: the zero-based index used as the marker number
PgMarkerOffByOne(idx) == <<"$">> \o ToDecimal(idx)

\* `$${idx + 1}`
PgMarker(idx) == <<"$">> \o ToDecimal(idx + 1)

\* this.escape(value) of the mysql2 connection, for the values the model binds
Escape(val) == IF val.t = "number" THEN ToDecimal(val.v) ELSE <<"N", "U", "L", "L">>

\* a faulty variant: the escaped value inlined the way the MySQL client does
PgReplacementInline(values, key, idx) == Escape(Get(values, key))

\* what the replace callback returns for a key found in values
PgReplacement(values, key, idx) == PgMarker(idx)

\* query.replace(/:(\w+)/g, callback), scanning from index i with the
\* callback's closure variable keys; out is the text produced so far
RECURSIVE PgReplace(_, _, _, _, _)
PgReplace(query, values, i, keys, out) ==
    IF i > Len(query) THEN [text |-> out, keys |-> keys]
    ELSE IF MatchAt(query, i) THEN
        LET e == MatchEnd(query, i)
            txt == SubSeq(query, i, e)
            key == SubSeq(query, i + 1, e)
        IN  IF ~HasProperty(values, key)
            THEN PgReplace(query, values, e + 1, keys, out \o txt)
            ELSE LET found == IndexOf(keys, key)
                     keys2 == IF found = -1 THEN Append(keys, key) ELSE keys
                     idx == IF found = -1 THEN Len(keys2) - 1 ELSE found
                 IN  PgReplace(query, values, e + 1, keys2,
                               out \o PgReplacement(values, key, idx))
    ELSE PgReplace(query, values, i + 1, keys, Append(out, query[i]))

formatQuery(query, values) ==
    IF Falsy(values) THEN [text |-> query, values |-> <<>>]
    ELSE LET r == PgReplace(query, values, 1, <<>>, <<>>)
         IN  [text |-> r.text,
              values |-> [j \in 1..Len(r.keys) |-> Get(values, r.keys[j])]]

(***************************************************************************)
(* MySQLClient.customQueryFormat                                           *)
(***************************************************************************)
RECURSIVE MyReplace(_, _, _, _)
MyReplace(query, values, i, out) ==
    IF i > Len(query) THEN out
    ELSE IF MatchAt(query, i) THEN
        LET e == MatchEnd(query, i)
            txt == SubSeq(query, i, e)
            key == SubSeq(query, i + 1, e)
        IN  IF HasOwnProperty(values, key)
            THEN MyReplace(query, values, e + 1, out \o Escape(Get(values, key)))
            ELSE MyReplace(query, values, e + 1, out \o txt)
    ELSE MyReplace(query, values, i + 1, Append(out, query[i]))

customQueryFormat(query, values) ==
    IF Falsy(values) THEN query ELSE MyReplace(query, values, 1, <<>>)


(***************************************************************************)
(* validateStatements of both clients.  A statement is any JavaScript      *)
(* value: a string (its characters) or something else.                     *)
(***************************************************************************)
Str(chars) == [isString |-> TRUE, chars |-> chars]

\* a value that is not a string (a number, undefined, an object)
NotAString == [isString |-> FALSE, chars |-> <<>>]

\* the characters ' " ` (the last two written by name) and the line feed
QuoteChars == {"'", "DQUOTE", "BACKTICK"}

LineFeed == "LF"

\* statement.includes('${')
IncludesTemplateMarker(s) ==
    \E i \in 1..(Len(s) - 1) : s[i] = "$" /\ s[i + 1] = "{"

\* statement.match(/['"`][^'"`]*\+[^\n]*\w/)
MatchesConcatenation(s) ==
    \E i \in 1..Len(s) : \E j \in (i + 1)..Len(s) : \E k \in (j + 1)..Len(s) :
        /\ s[i] \in QuoteChars
        /\ \A m \in (i + 1)..(j - 1) : s[m] \notin QuoteChars
        /\ s[j] = "+"
        /\ \A m \in (j + 1)..(k - 1) : s[m] # LineFeed
        /\ IsWordChar(s[k])

\* SqlString.format(statement) is called without values: sqlstring returns
\* the statement as it is and does not throw
SqlStringFormatThrows(s) == FALSE

\* a faulty variant: the "${" advisory made a hard error
ValidateThrowsOnTemplateMarker(statement) ==
    \/ ~statement.isString
    \/ SqlStringFormatThrows(statement.chars)
    \/ IncludesTemplateMarker(statement.chars)

\* whether validateStatements(statement) throws
ValidateThrows(statement) ==
    \/ ~statement.isString
    \/ SqlStringFormatThrows(statement.chars)

\* the console.warn calls of a validateStatements(statement) that returns
ValidateWarnings(statement) ==
    {w \in {"template literal", "string concatenation"} :
        \/ w = "template literal" /\ IncludesTemplateMarker(statement.chars)
        \/ w = "string concatenation" /\ MatchesConcatenation(statement.chars)}

(***************************************************************************)
(* Errors.  An error value has a kind, a message and a list holding its    *)
(* cause, if any.                                                          *)
(***************************************************************************)
NoError == [kind |-> "none", message |-> "", cause |-> <<>>]

\* new Error('All statements must be strings.') / new Error('Invalid SQL statement: ...')
ValidationError(statement) ==
    [kind |-> "Error",
     message |-> IF statement.isString THEN "Invalid SQL statement" ELSE "All statements must be strings.",
     cause |-> <<>>]

\* the error object the pg / mysql2 driver rejects an operation with
NativeError(op) == [kind |-> "DriverError", message |-> op, cause |-> <<>>]

\* a faulty variant: the driver's error replaced by a wrapper with a kind
WrapAsKind(e) ==
    [kind |-> IF e.message = "query" THEN "QueryError" ELSE "ConnectionError",
     message |-> e.message, cause |-> <<e>>]

\* an awaited driver promise that rejects makes the async method reject
\* with the same error object: no catch block surrounds the await
Rethrow(e) == e

(***************************************************************************)
(* The SQL clients' statements and parameters used by query().             *)
(***************************************************************************)
SqlInputs ==
    { NotAString,
      Str(<<":", "a">>),
      Str(<<"'", "$", "{", "a", "}", "'">>),
      Str(<<"'", "+", "a">>) }

ClientParams == {Absent, Obj([k \in {<<"a">>} |-> NumV(1)])}

NothingSent == [text |-> <<>>, values |-> <<>>]

\* new Client(options) / new Pool(options): what the driver's object has seen.
\* connectCalls: connect() invocations; connectFailed: one of them rejected;
\* connectOk: one of them resolved; queryIssued: query() was called on the
\* client; endCalled, ended: an end() was issued, has resolved;
\* endIssuedSince, endedSince: the same since the last connect() that resolved
NewConnection ==
    [connectCalls |-> 0, connectFailed |-> FALSE, connectOk |-> FALSE,
     queryIssued |-> FALSE, endCalled |-> FALSE, ended |-> FALSE,
     endIssuedSince |-> FALSE, endedSince |-> FALSE]

\* a slot no call occupies.  op: the method called; pc: where the call
\* stands; bound: the statement as bound before the first await; afterClose:
\* whether a close() had completed when the call was made; sent: whether the
\* statement was handed to the driver; warned: its console.warn advisories;
\* err: what the call rejected with
IdleCall ==
    [op |-> "none", pc |-> "idle", sql |-> NotAString, bound |-> NothingSent,
     afterClose |-> FALSE, sent |-> FALSE, warned |-> {}, err |-> NoError]

(***************************************************************************)
(* JWTClient: the libraries it calls, modelled by what they compute.       *)
(* Times are JavaScript clock readings in milliseconds.                    *)
(***************************************************************************)
\* the clock advances in steps of half a second
HalfSecond == 500

\* a configured lifetime or a payload datum: a string (its characters), a
\* number, or another JavaScript value
StrV(chars) == [t |-> "string", n |-> 0, s |-> chars]

NumberV(n) == [t |-> "number", n |-> n, s |-> <<>>]

UndefinedV == [t |-> "undefined", n |-> 0, s |-> <<>>]

NaNV == [t |-> "NaN", n |-> 0, s |-> <<>>]

NullV == [t |-> "null", n |-> 0, s |-> <<>>]

DigitValue(ch) == (CHOOSE i \in 1..10 : Digits[i] = ch) - 1

IsNumeric(chars) == Len(chars) > 0 /\ \A i \in 1..Len(chars) : chars[i] \in DigitChars

RECURSIVE ParseNat(_)
ParseNat(chars) ==
    IF Len(chars) = 0 THEN 0
    ELSE 10 * ParseNat(SubSeq(chars, 1, Len(chars) - 1)) + DigitValue(chars[Len(chars)])

\* the number of leading digits of a string
RECURSIVE DigitPrefix(_, _)
DigitPrefix(chars, i) ==
    IF i < Len(chars) /\ chars[i + 1] \in DigitChars THEN DigitPrefix(chars, i + 1) ELSE i

\* the units of the ms package that the model's lifetimes use
UnitMs(unit) ==
    IF unit = <<"m", "s">> \/ unit = <<>> THEN 1
    ELSE IF unit = <<"s">> THEN 1000
    ELSE IF unit = <<"m">> THEN 60000
    ELSE 0

\* ms(val): a string is parsed to milliseconds (undefined when it is no
\* duration); a number is FORMATTED, to a string such as "2s" or "900ms"
Ms(val) ==
    IF val.t = "string" /\ Len(val.s) > 0 THEN
        LET d == DigitPrefix(val.s, 0)
            unit == SubSeq(val.s, d + 1, Len(val.s))
        IN  IF d > 0 /\ UnitMs(unit) > 0
            THEN NumberV(ParseNat(SubSeq(val.s, 1, d)) * UnitMs(unit))
            ELSE UndefinedV
    ELSE IF val.t = "number" THEN
        IF val.n >= 60000 THEN StrV(ToDecimal((val.n + 30000) \div 60000) \o <<"m">>)
        ELSE IF val.n >= 1000 THEN StrV(ToDecimal((val.n + 500) \div 1000) \o <<"s">>)
        ELSE StrV(ToDecimal(val.n) \o <<"m", "s">>)
    ELSE UndefinedV

\* moment().add(val, 'milliseconds') at clock reading now: a number, or a
\* string that reads as a number, is added; anything else adds nothing
MomentAdd(now, val) ==
    IF val.t = "number" THEN now + val.n
    ELSE IF val.t = "string" /\ IsNumeric(val.s) THEN now + ParseNat(val.s)
    ELSE now

\* .utc().unix(): whole seconds
Unix(now) == now \div 1000

\* JSON.stringify then JSON.parse of a payload datum
JsonRoundTrip(data) == IF data.t = "NaN" THEN NullV ELSE data

\* the values JSON represents exactly
JsonExact(data) == data.t \in {"number", "string", "null"}

\* jwt.sign(payload, secret): the payload as its JSON text carries it, under
\* an HMAC that only the same secret and payload reproduce
JwtSign(payload, secret) ==
    [payload |-> [payload EXCEPT !.data = JsonRoundTrip(@)], key |-> secret]

(***************************************************************************)
(* uuid() is v7 of the uuid package: an identifier is the millisecond it   *)
(* was made in, then a sequence counter, then random bits.  The model      *)
(* keeps the first two parts, which is what the package makes unique; the  *)
(* package keeps them in module state between calls.                       *)
(***************************************************************************)
\* the width, in bits, the model gives the 32-bit sequence counter, so that
\* a few calls within one millisecond make it wrap
SeqBits == 1

\* what a later millisecond restarts the counter from: random bits, the top
\* bit clear
SeqSeeds == 0..(2 ^ (SeqBits - 1) - 1)

\* the module state before the first call (msecs is -Infinity there)
UuidFresh == [msecs |-> -1, seq |-> 0]

\* a faulty variant: every identifier made of the clock and random bits alone
UpdateV7StateNoCounter(state, now, rnd) == [msecs |-> now, seq |-> rnd]

\* updateV7State(state, now, rnds): a later millisecond takes the clock and a
\* random counter; within the same millisecond (or with the clock behind)
\* the counter advances, and its wrapping to 0 moves msecs on by one
UpdateV7State(state, now, rnd) ==
    IF now > state.msecs THEN [msecs |-> now, seq |-> rnd]
    ELSE LET seq == (state.seq + 1) % (2 ^ SeqBits)
         IN  [msecs |-> IF seq = 0 THEN state.msecs + 1 ELSE state.msecs, seq |-> seq]

NoToken ==
    [payload |-> [iss |-> "", aud |-> "", sub |-> "", iat |-> 0, nbf |-> 0, jti |-> UuidFresh,
                  exp |-> 0, type |-> "", data |-> UndefinedV],
     key |-> ""]

\* a faulty variant: the signature is not compared with the secret
SignatureValidAnyKey(token, secret) == TRUE

\* whether the token's signature verifies under secret
SignatureValid(token, secret) == token.key = secret

\* a string that is not three dot-separated parts
MalformedToken == [NoToken EXCEPT !.key = "not a jws"]

\* an issued token whose payload part was edited (a later exp) while its
\* signature part was kept: no secret verifies it
Tamper(t) == [payload |-> [t.payload EXCEPT !.exp = @ + 3600], key |-> "stale signature"]

\* jwt.verify(token, secret, callback): the error it calls back with, "" if none
JwtVerifyError(token, secret, now) ==
    IF token = MalformedToken THEN "jwt malformed"
    ELSE IF ~SignatureValid(token, secret) THEN "invalid signature"
    ELSE IF token.payload.nbf > Unix(now) THEN "jwt not active"
    ELSE IF Unix(now) >= token.payload.exp THEN "jwt expired"
    ELSE ""

\* JWTClient._createBasePayload at clock reading now, uuid() returning jti
CreateBasePayload(cfg, now, jti) ==
    [iss |-> cfg.issuer, aud |-> cfg.audience, iat |-> Unix(now), nbf |-> Unix(now),
     sub |-> cfg.subject, jti |-> jti]

\* { ...base, exp, type, data }
FullPayload(base, exp, type, data) ==
    [iss |-> base.iss, aud |-> base.aud, iat |-> base.iat, nbf |-> base.nbf,
     sub |-> base.sub, jti |-> base.jti, exp |-> exp, type |-> type, data |-> data]

Secrets == {"access_secret", "refresh_secret"}

Lifetimes == {StrV(<<"1", "s">>), NumberV(2000)}

DataValues == {NumberV(123), NaNV}

Configs ==
    [issuer : {"my-app"}, audience : {"my-users"}, subject : {"user-auth"},
     accessSecret : Secrets, refreshSecret : Secrets,
     accessExpiresIn : Lifetimes, refreshExpiresIn : Lifetimes]

NoBase == [iss |-> "", aud |-> "", iat |-> 0, nbf |-> 0, sub |-> "", jti |-> UuidFresh]

GenIdle == [pc |-> "idle", type |-> "", data |-> UndefinedV, base |-> NoBase]

NotIssued == [type |-> "", data |-> UndefinedV, doneAt |-> 0]

\* what a caller hands to verify...Token: the token issued last as it is,
\* that token tampered with, or a malformed string
Presentations == {"issued", "tampered", "malformed"}

NoVerdict == [path |-> "none", presented |-> "", at |-> 0, ok |-> FALSE,
              payload |-> NoToken.payload, message |-> "", error |-> "", code |-> ""]

(***************************************************************************)
(* The HTTP application of src/index.js: routing, the asyncHandler wrapper *)
(* of the route handlers, the 404 handler and the error handler.           *)
(* A response is a status and a JSON body; a body is the set of its        *)
(* <<field, JSON text of the value>> pairs.                                *)
(***************************************************************************)
\* requests the application handles at once (their promises still pending)
MaxRequests == 2

NoResponse == [sent |-> FALSE, status |-> 0, body |-> {}]

\* res.status(code).json(body)
Json(code, body) == [sent |-> TRUE, status |-> code, body |-> body]

\* success(res, data = null, message, code = 200) of utils/apiResponse
success(message) ==
    Json(200, {<<"success", "true">>, <<"data", "null">>, <<"message", message>>})

\* an error object (or what else was thrown or rejected with): its status and
\* code fields; thrown says what kind of value it is
IntentionalError ==
    [thrown |-> "Error", status |-> NumberV(400), code |-> StrV(<<"INTENTIONAL_ERROR">>)]

PlainError == [thrown |-> "Error", status |-> UndefinedV, code |-> UndefinedV]

\* Promise.reject() without a reason
UndefinedReason == [thrown |-> "undefined", status |-> UndefinedV, code |-> UndefinedV]

NoErr == [thrown |-> "nothing", status |-> UndefinedV, code |-> UndefinedV]

\* a route handler fn(req, res, next), by what a call of it does: it throws
\* before returning (sync = "throws") or returns; what it returns is a
\* promise that fulfils or rejects, or no promise; sends is the response it
\* has sent when it returns
Handler(name, sync, settles, sends, err) ==
    [name |-> name, sync |-> sync, settles |-> settles, sends |-> sends, err |-> err]

\* router.get('/', asyncHandler(async (req, res) => { res.status(200).json(...) }))
Welcome ==
    Handler("welcome", "returns", "fulfils",
            Json(200, {<<"message", "Welcome to the API!">>}), NoErr)

\* ExampleController.sayHello
SayHello ==
    Handler("sayHello", "returns", "fulfils", success("Hello from ExampleController!"), NoErr)

\* ExampleController.errorIfTrue: an async function, so its throw rejects the
\* promise it returned
ErrorIfTrue(fail) ==
    IF fail
    THEN Handler("errorIfTrue", "returns", "rejects", NoResponse, IntentionalError)
    ELSE Handler("errorIfTrue", "returns", "fulfils", success("No error thrown."), NoErr)

\* handlers a user of asyncHandler may wrap besides the repository's own: a
\* function that is not async and throws, one that returns a rejected
\* promise (with an Error, with nothing), one that returns no promise
OtherHandlers ==
    { Handler("throws", "throws", "none", NoResponse, PlainError),
      Handler("rejects", "returns", "rejects", NoResponse, PlainError),
      Handler("rejects with nothing", "returns", "rejects", NoResponse, UndefinedReason),
      Handler("returns no promise", "returns", "none", success("OK"), NoErr) }

Handlers == {Welcome, SayHello, ErrorIfTrue(TRUE), ErrorIfTrue(FALSE)} \cup OtherHandlers

NoHandler == Handler("none", "returns", "none", NoResponse, NoErr)

\* request paths: the routes of src/index.js and src/routes, and two that
\* match none
Paths ==
    {"/", "/api-docs/", "/api/", "/api/example/hello", "/api/example/simulate-error",
     "/api/nowhere"}

\* the handler the routers hold for a path (fail: the query has fail=true)
RouteOf(path, fail) ==
    IF path = "/api/" THEN Welcome
    ELSE IF path = "/api/example/hello" THEN SayHello
    ELSE IF path = "/api/example/simulate-error" THEN ErrorIfTrue(fail)
    ELSE NoHandler

\* app.use((req, res) => { res.status(404).json({ error: 'Not found' }) })
NotFoundResponse == Json(404, {<<"error", "Not found">>})

\* app.use((err, req, res, next) => { res.status(500).json({ error: 'Internal server error' }) })
ErrorResponse(err) == Json(500, {<<"error", "Internal server error">>})

\* swaggerUi.serve / swaggerUi.setup: the documentation page
SwaggerResponse == Json(200, {<<"html", "Swagger UI">>})

\* a faulty variant: the rejection swallowed (.catch(() => {}))
CatchNextSwallowing(fn) == <<>>

\* Promise.resolve(fn(req, res, next)).catch(next), fn having returned: the
\* arguments next is called with once the promise has settled
CatchNext(fn) == IF fn.settles = "rejects" THEN <<fn.err>> ELSE <<>>

\* what escapes asyncHandler(fn)(req, res, next): fn is called outside any
\* try block and outside the promise chain, so what it throws before
\* returning leaves the wrapper as it is
Escapes(fn) == IF fn.sync = "throws" THEN fn.err ELSE NoErr

\* a slot no request occupies.  via: how the wrapper came to be called;
\* nexts: the calls of next(), each with who called and with what;
\* escaped: what the wrapper threw to its caller
NoRequest ==
    [pc |-> "none", via |-> "", path |-> "", fn |-> NoHandler, res |-> NoResponse,
     nexts |-> <<>>, escaped |-> NoErr]

\* next(err) in the application: a truthy err goes to the error handler,
\* next() or next(undefined) moves on to the following middleware, which for
\* a request no other route matches is the 404 handler
AfterNext(err) == IF err.thrown = "undefined" THEN NotFoundResponse ELSE ErrorResponse(err)

(***************************************************************************)
(* The error handlers: errorHandler of the error middleware with error()   *)
(* of utils/apiResponse, and the handler src/index.js mounts.  An outcome  *)
(* is the response the handler has sent and what it threw instead.         *)
(***************************************************************************)
\* the values of err.status met in practice: none, 0, a success status, client
\* and server error statuses, a status given as a string
StatusValues ==
    {UndefinedV, NumberV(0), NumberV(200), NumberV(400), NumberV(503), StrV(<<"400">>)}

\* the values of err.code: none, an HTTP status, a database error number, 0,
\* the string codes of Node, of the token service, of a route, of Postgres
CodeValues ==
    {UndefinedV, NumberV(404), NumberV(11000), NumberV(0),
     StrV(<<"ECONNREFUSED">>), StrV(<<"TOKEN_EXPIRED">>), StrV(<<"INTENTIONAL_ERROR">>),
     StrV(<<"23505">>)}

\* the error objects next(err) may carry
ErrorObjects == [thrown : {"Error"}, status : StatusValues, code : CodeValues]

\* JavaScript truthiness, as || tests it
Truthy(v) ==
    \/ v.t = "number" /\ v.n # 0
    \/ v.t = "string" /\ v.s # <<>>

\* const status = err.status || err.code || 500
StatusOf(err) ==
    IF Truthy(err.status) THEN err.status
    ELSE IF Truthy(err.code) THEN err.code
    ELSE NumberV(500)

\* res.status(code) of Express 5: what it throws ("" when it returns)
ResStatusThrows(code) ==
    IF code.t # "number" THEN "TypeError"
    ELSE IF code.n < 100 \/ code.n > 999 THEN "RangeError"
    ELSE ""

NotHandled == [called |-> FALSE, res |-> NoResponse, threw |-> ""]

Sent(res) == [called |-> TRUE, res |-> res, threw |-> ""]

Threw(kind) == [called |-> TRUE, res |-> NoResponse, threw |-> kind]

\* error(res, error, code = 500, data = null) of utils/apiResponse
error(message, code, data) ==
    IF ResStatusThrows(code) # ""
    THEN Threw(ResStatusThrows(code))
    ELSE Sent(Json(code.n, {<<"success", "false">>, <<"error", message>>,
                            <<"code", ToString(code.n)>>, <<"data", data>>}))

\* errorHandler(err, req, res, next)
errorHandler(err) == error("Internal server error", StatusOf(err), "null")

(***************************************************************************)
(* The process of src/server.js and shutdown() of lib/shutdown.            *)
(***************************************************************************)
\* shutdown() invocations the model follows
MaxShutdowns == 2

\* connections open on the server when it is asked to close
MaxConns == 2

\* setTimeout(..., 10000): the delay of the force-exit timer, in milliseconds
ForceExitDelay == 10000

\* http.createServer(app) after listen(): accepting, with conns connections open
ServerStart(conns) == [state |-> "listening", conns |-> conns, onClose |-> <<>>]

\* the process is running
NotExited == [exited |-> FALSE, code |-> 0, by |-> "", of |-> 0]

(***************************************************************************)
(* State.                                                                  *)
(***************************************************************************)
VARIABLES
    query,      \* the template handed to the rewriting functions
    values,     \* its parameter set
    pgOut,      \* what PgSQLClient.formatQuery returned
    myOut,      \* what MySQLClient.customQueryFormat returned
    dialect,    \* which client class was constructed: "pg" or "mysql"
    usePool,    \* this.usePool
    connected,  \* this.connected (PgSQLClient)
    conn,       \* this.conn: what the driver's connection or pool has seen
    calls,      \* the query() and close() calls in flight or just settled
    cfg,        \* the JWTClient's fields, set by its constructor
    clock,      \* the system clock, in milliseconds
    gen,        \* a generate...Token call between its two clock readings
    issues,     \* how many tokens were issued
    uuidState,  \* the module state of uuid v7
    jtis,       \* the identifiers uuid() has returned, in order
    token,      \* the token issued last
    issuedFrom, \* the call that issued it: its type, its data, when it returned
    verdict,    \* the outcome of the last verify...Token call on it
    requests,   \* the HTTP requests being handled
    reached,    \* the error object handed to the error handlers
    handled,    \* what each error handler did with it
    server,     \* the http.Server: its state, open connections, 'close' listeners
    shutdowns,  \* the shutdown() invocations so far, each with its timer
    exit        \* whether process.exit was called, with which code, by what

bindVars == <<query, values, pgOut, myOut>>

clientVars == <<dialect, usePool, connected, conn, calls>>

jwtVars == <<cfg, clock, gen, issues, uuidState, jtis, token, issuedFrom, verdict>>

httpVars == <<requests, reached, handled>>

procVars == <<server, shutdowns, exit>>

vars == <<query, values, pgOut, myOut, dialect, usePool, connected, conn, calls,
          cfg, clock, gen, issues, uuidState, jtis, token, issuedFrom, verdict,
          requests, reached, handled, server, shutdowns, exit>>

NotCalled == [called |-> FALSE, text |-> <<>>, values |-> <<>>]

(***************************************************************************)
(* The rewriting functions applied to every template and parameter set.    *)
(***************************************************************************)
\* a client on which nothing is ever called
ClientIdle ==
    /\ dialect = "pg"
    /\ usePool = FALSE
    /\ connected = FALSE
    /\ conn = NewConnection
    /\ calls = [c \in 1..MaxCalls |-> IdleCall]

\* a token service on which nothing is ever called
JwtIdle ==
    /\ cfg = [issuer |-> "my-app", audience |-> "my-users", subject |-> "user-auth",
              accessSecret |-> "access_secret", refreshSecret |-> "refresh_secret",
              accessExpiresIn |-> StrV(<<"1", "s">>), refreshExpiresIn |-> StrV(<<"1", "s">>)]
    /\ clock = 0
    /\ gen = GenIdle
    /\ issues = 0
    /\ uuidState = UuidFresh
    /\ jtis = <<>>
    /\ token = NoToken
    /\ issuedFrom = NotIssued
    /\ verdict = NoVerdict

\* an application no request reaches
NothingHandled == [central |-> NotHandled, inline |-> NotHandled]

\* no error has reached the error handlers
ErrIdle ==
    /\ reached = NoErr
    /\ handled = NothingHandled

HttpIdle ==
    /\ requests = [r \in 1..MaxRequests |-> NoRequest]
    /\ ErrIdle

\* a process nothing happens to
ProcIdle ==
    /\ server = ServerStart(0)
    /\ shutdowns = <<>>
    /\ exit = NotExited

BindInit ==
    /\ query \in Templates
    /\ values \in ParamSets
    /\ pgOut = NotCalled
    /\ myOut = NotCalled
    /\ ClientIdle
    /\ JwtIdle
    /\ HttpIdle
    /\ ProcIdle

BindIdle ==
    /\ query = <<>>
    /\ values = Absent
    /\ pgOut = NotCalled
    /\ myOut = NotCalled

CallFormatQuery ==
    /\ ~pgOut.called
    /\ pgOut' = [called |-> TRUE] @@ formatQuery(query, values)
    /\ UNCHANGED <<query, values, myOut>>
    /\ UNCHANGED clientVars
    /\ UNCHANGED jwtVars
    /\ UNCHANGED <<httpVars, procVars>>

CallCustomQueryFormat ==
    /\ ~myOut.called
    /\ myOut' = [called |-> TRUE, text |-> customQueryFormat(query, values), values |-> <<>>]
    /\ UNCHANGED <<query, values, pgOut>>
    /\ UNCHANGED clientVars
    /\ UNCHANGED jwtVars
    /\ UNCHANGED <<httpVars, procVars>>

BindNext == CallFormatQuery \/ CallCustomQueryFormat

SpecBind == BindInit /\ [][BindNext]_vars

(***************************************************************************)
(* The SQL clients: constructor, query() and close().  The driver (pg,     *)
(* mysql2) is the environment: it settles each promise it returned, either *)
(* way, at any later time; once end() has resolved it resolves no query.   *)
(***************************************************************************)
ClientInit ==
    /\ BindIdle
    /\ JwtIdle
    /\ HttpIdle
    /\ ProcIdle
    /\ dialect \in {"pg", "mysql"}
    /\ usePool \in BOOLEAN
    /\ connected = FALSE
    /\ conn = NewConnection
    /\ calls = [c \in 1..MaxCalls |-> IdleCall]

\* a new call takes the first free slot
FreeSlot(c) ==
    /\ calls[c].pc = "idle"
    /\ \A d \in 1..(c - 1) : calls[d].pc # "idle"

\* PgSQLClient.query up to its first await; a statement handed to the driver
\* (sent) is the call's bound text and value list
PgQueryCall(c, sql, params) ==
    /\ dialect = "pg"
    /\ FreeSlot(c)
    /\ LET started == [IdleCall EXCEPT !.op = "query", !.sql = sql,
                                       !.afterClose = conn.ended]
       IN  IF ValidateThrows(sql)
           THEN /\ calls' = [calls EXCEPT ![c] =
                       [started EXCEPT !.pc = "rejected", !.err = ValidationError(sql)]]
                /\ conn' = [conn EXCEPT !.queryIssued = TRUE]
           ELSE LET bound == formatQuery(sql.chars, params)
                    valid == [started EXCEPT !.warned = ValidateWarnings(sql),
                                             !.bound = bound]
                IN  IF ~usePool /\ ~connected
                    THEN /\ conn.connectCalls < MaxConnects
                         /\ conn' = [conn EXCEPT !.connectCalls = @ + 1,
                                                 !.queryIssued = TRUE]
                         /\ calls' = [calls EXCEPT ![c] =
                                [valid EXCEPT !.pc = "awaitConnect"]]
                    ELSE /\ conn' = [conn EXCEPT !.queryIssued = TRUE]
                         /\ calls' = [calls EXCEPT ![c] =
                                [valid EXCEPT !.pc = "awaitQuery", !.sent = TRUE]]
    /\ UNCHANGED <<dialect, usePool, connected>>
    /\ UNCHANGED bindVars
    /\ UNCHANGED jwtVars
    /\ UNCHANGED <<httpVars, procVars>>

\* a faulty variant: the flag is not set after connect()
FlagAfterConnectForgotten == connected

\* this.connected = true
FlagAfterConnect == TRUE

\* await this.conn.connect() resolves: the flag is set and the query is sent
PgConnectResolves(c) ==
    /\ calls[c].pc = "awaitConnect"
    /\ connected' = FlagAfterConnect
    /\ calls' = [calls EXCEPT ![c].pc = "awaitQuery", ![c].sent = TRUE]
    /\ conn' = [conn EXCEPT !.connectOk = TRUE, !.endIssuedSince = FALSE,
                            !.endedSince = FALSE]
    /\ UNCHANGED <<dialect, usePool>>
    /\ UNCHANGED bindVars
    /\ UNCHANGED jwtVars
    /\ UNCHANGED <<httpVars, procVars>>

\* await this.conn.connect() rejects: query() rejects with the driver's error
PgConnectRejects(c) ==
    /\ calls[c].pc = "awaitConnect"
    /\ calls' = [calls EXCEPT ![c].pc = "rejected",
                              ![c].err = Rethrow(NativeError("connect"))]
    /\ conn' = [conn EXCEPT !.connectFailed = TRUE]
    /\ UNCHANGED <<dialect, usePool, connected>>
    /\ UNCHANGED bindVars
    /\ UNCHANGED jwtVars
    /\ UNCHANGED <<httpVars, procVars>>

\* MySQLClient.query up to its await; the driver formats the statement with
\* the queryFormat the constructor installed
MyQueryCall(c, sql, params) ==
    /\ dialect = "mysql"
    /\ FreeSlot(c)
    /\ LET started == [IdleCall EXCEPT !.op = "query", !.sql = sql,
                                       !.afterClose = conn.ended]
       IN  IF ValidateThrows(sql)
           THEN calls' = [calls EXCEPT ![c] =
                       [started EXCEPT !.pc = "rejected", !.err = ValidationError(sql)]]
           ELSE calls' = [calls EXCEPT ![c] =
                       [started EXCEPT !.warned = ValidateWarnings(sql),
                                       !.bound = [text |-> customQueryFormat(sql.chars, params),
                                                  values |-> <<>>],
                                       !.pc = "awaitQuery", !.sent = TRUE]]
    /\ conn' = [conn EXCEPT !.queryIssued = TRUE]
    /\ UNCHANGED <<dialect, usePool, connected>>
    /\ UNCHANGED bindVars
    /\ UNCHANGED jwtVars
    /\ UNCHANGED <<httpVars, procVars>>

\* the driver resolves a query: query() returns the rows
DriverQueryResolves(c) ==
    /\ calls[c].pc = "awaitQuery"
    /\ ~calls[c].afterClose
    /\ calls' = [calls EXCEPT ![c].pc = "resolved"]
    /\ UNCHANGED <<dialect, usePool, connected, conn>>
    /\ UNCHANGED bindVars
    /\ UNCHANGED jwtVars
    /\ UNCHANGED <<httpVars, procVars>>

\* the driver rejects a query: query() rejects with the driver's error
DriverQueryRejects(c) ==
    /\ calls[c].pc = "awaitQuery"
    /\ calls' = [calls EXCEPT ![c].pc = "rejected",
                              ![c].err = Rethrow(NativeError("query"))]
    /\ UNCHANGED <<dialect, usePool, connected, conn>>
    /\ UNCHANGED bindVars
    /\ UNCHANGED jwtVars
    /\ UNCHANGED <<httpVars, procVars>>

\* close() of either client up to its await
CloseCall(c) ==
    /\ FreeSlot(c)
    /\ calls' = [calls EXCEPT ![c] =
           [IdleCall EXCEPT !.op = "close", !.pc = "awaitEnd", !.afterClose = conn.ended]]
    /\ conn' = [conn EXCEPT !.endCalled = TRUE, !.endIssuedSince = TRUE]
    /\ UNCHANGED <<dialect, usePool, connected>>
    /\ UNCHANGED bindVars
    /\ UNCHANGED jwtVars
    /\ UNCHANGED <<httpVars, procVars>>

\* a faulty variant: close() forgets to reset the flag
FlagAfterEndUntouched(d) == connected

\* PgSQLClient.close sets this.connected = false after the await;
\* MySQLClient keeps no flag
FlagAfterEnd(d) == IF d = "pg" THEN FALSE ELSE connected

\* end() resolves
DriverEndResolves(c) ==
    /\ calls[c].pc = "awaitEnd"
    /\ connected' = FlagAfterEnd(dialect)
    /\ calls' = [calls EXCEPT ![c].pc = "resolved"]
    /\ conn' = [conn EXCEPT !.ended = TRUE, !.endedSince = TRUE]
    /\ UNCHANGED <<dialect, usePool>>
    /\ UNCHANGED bindVars
    /\ UNCHANGED jwtVars
    /\ UNCHANGED <<httpVars, procVars>>

\* end() rejects: close() rejects with the driver's error, the flag is left
DriverEndRejects(c) ==
    /\ calls[c].pc = "awaitEnd"
    /\ calls' = [calls EXCEPT ![c].pc = "rejected",
                              ![c].err = Rethrow(NativeError("end"))]
    /\ UNCHANGED <<dialect, usePool, connected, conn>>
    /\ UNCHANGED bindVars
    /\ UNCHANGED jwtVars
    /\ UNCHANGED <<httpVars, procVars>>

\* the caller has received the outcome of a settled call
Return(c) ==
    /\ calls[c].pc \in {"resolved", "rejected"}
    /\ calls' = [calls EXCEPT ![c] = IdleCall]
    /\ UNCHANGED <<dialect, usePool, connected, conn>>
    /\ UNCHANGED bindVars
    /\ UNCHANGED jwtVars
    /\ UNCHANGED <<httpVars, procVars>>

ClientNext ==
    \E c \in 1..MaxCalls :
        \/ \E sql \in SqlInputs : \E params \in ClientParams : PgQueryCall(c, sql, params)
        \/ PgConnectResolves(c)
        \/ PgConnectRejects(c)
        \/ \E sql \in SqlInputs : \E params \in ClientParams : MyQueryCall(c, sql, params)
        \/ DriverQueryResolves(c)
        \/ DriverQueryRejects(c)
        \/ CloseCall(c)
        \/ DriverEndResolves(c)
        \/ DriverEndRejects(c)
        \/ Return(c)

SpecClient == ClientInit /\ [][ClientNext]_vars

(***************************************************************************)
(* The token service: constructor, generate...Token and verify...Token,    *)
(* under a clock that advances at any moment.                              *)
(***************************************************************************)
JwtInit ==
    /\ BindIdle
    /\ ClientIdle
    /\ HttpIdle
    /\ ProcIdle
    /\ cfg \in Configs
    /\ clock = 0
    /\ gen = GenIdle
    /\ issues = 0
    /\ uuidState = UuidFresh
    /\ jtis = <<>>
    /\ token = NoToken
    /\ issuedFrom = NotIssued
    /\ verdict = NoVerdict

Tick ==
    /\ clock < MaxTicks * HalfSecond
    /\ clock' = clock + HalfSecond
    /\ UNCHANGED <<cfg, gen, issues, uuidState, jtis, token, issuedFrom, verdict>>
    /\ UNCHANGED <<bindVars, clientVars, httpVars, procVars>>

\* generateAccessToken({ data }): this._createBasePayload()
GenerateAccessTokenBase(data) ==
    /\ gen.pc = "idle"
    /\ issues < MaxIssues
    /\ issues' = issues + 1
    /\ \E rnd \in SeqSeeds : uuidState' = UpdateV7State(uuidState, clock, rnd)
    /\ jtis' = Append(jtis, uuidState')
    /\ gen' = [pc |-> "based", type |-> "access", data |-> data,
               base |-> CreateBasePayload(cfg, clock, uuidState')]
    /\ verdict' = NoVerdict
    /\ UNCHANGED <<cfg, clock, token, issuedFrom>>
    /\ UNCHANGED <<bindVars, clientVars, httpVars, procVars>>

\* generateAccessToken: exp from a second reading of the clock, then jwt.sign
GenerateAccessTokenSign ==
    /\ gen.pc = "based"
    /\ gen.type = "access"
    /\ LET exp == Unix(MomentAdd(clock, Ms(cfg.accessExpiresIn)))
       IN  token' = JwtSign(FullPayload(gen.base, exp, "access", gen.data), cfg.accessSecret)
    /\ issuedFrom' = [type |-> "access", data |-> gen.data, doneAt |-> clock]
    /\ gen' = GenIdle
    /\ UNCHANGED <<cfg, clock, issues, uuidState, jtis, verdict>>
    /\ UNCHANGED <<bindVars, clientVars, httpVars, procVars>>

\* generateRefreshToken({ data }): this._createBasePayload()
GenerateRefreshTokenBase(data) ==
    /\ gen.pc = "idle"
    /\ issues < MaxIssues
    /\ issues' = issues + 1
    /\ \E rnd \in SeqSeeds : uuidState' = UpdateV7State(uuidState, clock, rnd)
    /\ jtis' = Append(jtis, uuidState')
    /\ gen' = [pc |-> "based", type |-> "refresh", data |-> data,
               base |-> CreateBasePayload(cfg, clock, uuidState')]
    /\ verdict' = NoVerdict
    /\ UNCHANGED <<cfg, clock, token, issuedFrom>>
    /\ UNCHANGED <<bindVars, clientVars, httpVars, procVars>>

\* generateRefreshToken: exp from a second reading of the clock, then jwt.sign
GenerateRefreshTokenSign ==
    /\ gen.pc = "based"
    /\ gen.type = "refresh"
    /\ LET exp == Unix(MomentAdd(clock, Ms(cfg.refreshExpiresIn)))
       IN  token' = JwtSign(FullPayload(gen.base, exp, "refresh", gen.data), cfg.refreshSecret)
    /\ issuedFrom' = [type |-> "refresh", data |-> gen.data, doneAt |-> clock]
    /\ gen' = GenIdle
    /\ UNCHANGED <<cfg, clock, issues, uuidState, jtis, verdict>>
    /\ UNCHANGED <<bindVars, clientVars, httpVars, procVars>>

\* the token argument of a verify...Token call
Presented(p) ==
    IF p = "issued" THEN token
    ELSE IF p = "tampered" THEN Tamper(token)
    ELSE MalformedToken

\* a faulty variant: the decoded payload handed out with the rejection
SettleWithDecodedData(path, p, e, message, code) ==
    [path |-> path, presented |-> p, at |-> clock, ok |-> e = "",
     payload |-> Presented(p).payload,
     message |-> IF e = "" THEN "" ELSE message, error |-> e,
     code |-> IF e = "" THEN "" ELSE code]

\* the promise of a verify...Token call on presentation p, jwt.verify having
\* called back with error e: resolve(data), or reject({ message, error, code })
Settle(path, p, e, message, code) ==
    IF e = ""
    THEN [path |-> path, presented |-> p, at |-> clock, ok |-> TRUE,
          payload |-> Presented(p).payload, message |-> "", error |-> "", code |-> ""]
    ELSE [path |-> path, presented |-> p, at |-> clock, ok |-> FALSE,
          payload |-> NoToken.payload, message |-> message, error |-> e, code |-> code]

\* verifyAccessToken(token)
VerifyAccessToken(p) ==
    /\ p = "malformed" \/ token # NoToken
    /\ gen.pc = "idle"
    /\ verdict' = Settle("access", p, JwtVerifyError(Presented(p), cfg.accessSecret, clock),
                         "Invalid or expired access token", "ER_INVALID_ACCESS_TOKEN")
    /\ UNCHANGED <<cfg, clock, gen, issues, uuidState, jtis, token, issuedFrom>>
    /\ UNCHANGED <<bindVars, clientVars, httpVars, procVars>>

\* verifyRefreshToken(token)
VerifyRefreshToken(p) ==
    /\ p = "malformed" \/ token # NoToken
    /\ gen.pc = "idle"
    /\ verdict' = Settle("refresh", p, JwtVerifyError(Presented(p), cfg.refreshSecret, clock),
                         "Invalid or expired refresh token", "ER_INVALID_REFRESH_TOKEN")
    /\ UNCHANGED <<cfg, clock, gen, issues, uuidState, jtis, token, issuedFrom>>
    /\ UNCHANGED <<bindVars, clientVars, httpVars, procVars>>

JwtNext ==
    \/ Tick
    \/ \E data \in DataValues : GenerateAccessTokenBase(data)
    \/ GenerateAccessTokenSign
    \/ \E data \in DataValues : GenerateRefreshTokenBase(data)
    \/ GenerateRefreshTokenSign
    \/ \E p \in Presentations : VerifyAccessToken(p)
    \/ \E p \in Presentations : VerifyRefreshToken(p)

SpecJwt == JwtInit /\ [][JwtNext]_vars

(***************************************************************************)
(* The HTTP application: a request is routed; a route's middleware is      *)
(* asyncHandler(fn); the promise of fn settles in a later microtask.       *)
(* Express's route layer is the environment: it calls the middleware, and  *)
(* calls next(err) itself with what the middleware throws.                 *)
(***************************************************************************)
HttpInit ==
    /\ BindIdle
    /\ ClientIdle
    /\ JwtIdle
    /\ ProcIdle
    /\ requests = [r \in 1..MaxRequests |-> NoRequest]
    /\ ErrIdle

\* a new request takes the first free slot
FreeRequest(r) ==
    /\ requests[r].pc = "none"
    /\ \A q \in 1..(r - 1) : requests[q].pc # "none"

\* asyncHandler(fn)(req, res, next) up to its return or throw
Wrapped(via, path, fn) ==
    LET called == [NoRequest EXCEPT !.via = via, !.path = path, !.fn = fn]
    IN  IF Escapes(fn) # NoErr
        THEN [called EXCEPT !.pc = "done",
                            !.escaped = Escapes(fn),
                            !.nexts = <<[by |-> "express", err |-> Escapes(fn)]>>,
                            !.res = AfterNext(Escapes(fn))]
        ELSE [called EXCEPT !.pc = "pending", !.res = fn.sends]

\* a request arrives at the application of src/index.js
HttpRequest(r, path, fail) ==
    /\ FreeRequest(r)
    /\ requests' = [requests EXCEPT ![r] =
           IF path = "/api-docs/"
           THEN [NoRequest EXCEPT !.pc = "done", !.via = "app", !.path = path,
                                  !.res = SwaggerResponse]
           ELSE IF RouteOf(path, fail) = NoHandler
           THEN [NoRequest EXCEPT !.pc = "done", !.via = "app", !.path = path,
                                  !.res = NotFoundResponse]
           ELSE Wrapped("app", path, RouteOf(path, fail))]
    /\ UNCHANGED <<bindVars, clientVars, jwtVars, procVars, reached, handled>>

\* a request arrives at a route registered with asyncHandler(fn), fn any handler
CallWrapped(r, fn) ==
    /\ FreeRequest(r)
    /\ requests' = [requests EXCEPT ![r] = Wrapped("route", "", fn)]
    /\ UNCHANGED <<bindVars, clientVars, jwtVars, procVars, reached, handled>>

\* the promise Promise.resolve(fn(req, res, next)) has settled: .catch(next)
PromiseSettles(r) ==
    /\ requests[r].pc = "pending"
    /\ LET args == CatchNext(requests[r].fn)
       IN  requests' = [requests EXCEPT
               ![r].pc = "done",
               ![r].nexts = [i \in 1..Len(args) |-> [by |-> "asyncHandler", err |-> args[i]]],
               ![r].res = IF Len(args) = 0 THEN @ ELSE AfterNext(args[1])]
    /\ UNCHANGED <<bindVars, clientVars, jwtVars, procVars, reached, handled>>

\* the response has gone out
Deliver(r) ==
    /\ requests[r].pc = "done"
    /\ requests' = [requests EXCEPT ![r] = NoRequest]
    /\ UNCHANGED <<bindVars, clientVars, jwtVars, procVars, reached, handled>>

HttpNext ==
    \E r \in 1..MaxRequests :
        \/ \E path \in Paths : \E fail \in BOOLEAN : HttpRequest(r, path, fail)
        \/ \E fn \in Handlers : CallWrapped(r, fn)
        \/ PromiseSettles(r)
        \/ Deliver(r)

SpecHttp == HttpInit /\ [][HttpNext]_vars

(***************************************************************************)
(* The error handlers applied to every error object: next(err) hands err   *)
(* to the error-handling middleware the application has mounted.           *)
(***************************************************************************)
ErrInit ==
    /\ BindIdle
    /\ ClientIdle
    /\ JwtIdle
    /\ ProcIdle
    /\ requests = [r \in 1..MaxRequests |-> NoRequest]
    /\ reached \in ErrorObjects
    /\ handled = NothingHandled

\* app.use(errorHandler): the error middleware is called with the error
CallErrorHandler ==
    /\ ~handled.central.called
    /\ handled' = [handled EXCEPT !.central = errorHandler(reached)]
    /\ UNCHANGED <<bindVars, clientVars, jwtVars, procVars, requests, reached>>

\* app.use((err, req, res, next) => ...) of src/index.js is called with the error
CallInlineErrorHandler ==
    /\ ~handled.inline.called
    /\ handled' = [handled EXCEPT !.inline = Sent(ErrorResponse(reached))]
    /\ UNCHANGED <<bindVars, clientVars, jwtVars, procVars, requests, reached>>

ErrNext == CallErrorHandler \/ CallInlineErrorHandler

SpecErrorHandler == ErrInit /\ [][ErrNext]_vars

(***************************************************************************)
(* The process: the handlers src/server.js registers for signals and for   *)
(* errors nobody caught, shutdown() of lib/shutdown, the server draining   *)
(* its connections and the force-exit timers.                              *)
(***************************************************************************)
ProcInit ==
    /\ BindIdle
    /\ ClientIdle
    /\ JwtIdle
    /\ HttpIdle
    /\ server \in {ServerStart(c) : c \in 0..MaxConns}
    /\ shutdowns = <<>>
    /\ exit = NotExited

\* shutdown(server, err) called on event; given: server is not missing;
\* err: a truthy err was passed
Shutdown(event, given, err) ==
    /\ ~exit.exited
    /\ Len(shutdowns) < MaxShutdowns
    /\ IF ~given
       THEN /\ shutdowns' = Append(shutdowns,
                   [event |-> event, server |-> FALSE, err |-> err,
                    timer |-> "none", delay |-> 0])
            /\ UNCHANGED server
       ELSE /\ shutdowns' = Append(shutdowns,
                   [event |-> event, server |-> TRUE, err |-> err,
                    timer |-> "armed", delay |-> ForceExitDelay])
            /\ server' = [server EXCEPT !.state = "closing",
                                        !.onClose = Append(@, Len(shutdowns) + 1)]
    /\ UNCHANGED exit
    /\ UNCHANGED <<bindVars, clientVars, jwtVars, httpVars>>

\* process.on('SIGINT' | 'SIGTERM'): shutdown(server)
OnSignal(sig) == Shutdown(sig, TRUE, FALSE)

\* process.on('uncaughtException'): shutdown(server, err), err being what was
\* thrown (truthy or not)
OnUncaughtException(truthy) == Shutdown("uncaughtException", TRUE, truthy)

\* process.on('unhandledRejection'): shutdown(server, an Error in every case)
OnUnhandledRejection == Shutdown("unhandledRejection", TRUE, TRUE)

\* shutdown(undefined, err): if (!server) return
ShutdownWithoutServer(err) == Shutdown("call", FALSE, err)

\* a client opens a connection to the listening server
ConnectionOpens ==
    /\ ~exit.exited
    /\ server.state = "listening"
    /\ server.conns < MaxConns
    /\ server' = [server EXCEPT !.conns = @ + 1]
    /\ UNCHANGED <<shutdowns, exit>>
    /\ UNCHANGED <<bindVars, clientVars, jwtVars, httpVars>>

\* a connection ends
ConnectionEnds ==
    /\ ~exit.exited
    /\ server.conns > 0
    /\ server' = [server EXCEPT !.conns = @ - 1]
    /\ UNCHANGED <<shutdowns, exit>>
    /\ UNCHANGED <<bindVars, clientVars, jwtVars, httpVars>>

\* process.exit(err ? 1 : 0)
ExitCode(err) == IF err THEN 1 ELSE 0

\* the closing server has no connection left and emits 'close': the
\* listeners run in the order server.close() registered them, and the first
\* one ends the process
ServerCloses ==
    /\ ~exit.exited
    /\ server.state = "closing"
    /\ server.conns = 0
    /\ server' = [server EXCEPT !.state = "closed"]
    /\ exit' = [exited |-> TRUE, code |-> ExitCode(shutdowns[server.onClose[1]].err),
                by |-> "close", of |-> server.onClose[1]]
    /\ UNCHANGED shutdowns
    /\ UNCHANGED <<bindVars, clientVars, jwtVars, httpVars>>

\* a force-exit timer fires: of timers of one delay the one set first
TimerFires(i) ==
    /\ ~exit.exited
    /\ i \in 1..Len(shutdowns)
    /\ shutdowns[i].timer = "armed"
    /\ \A j \in 1..(i - 1) : shutdowns[j].timer # "armed"
    /\ shutdowns' = [shutdowns EXCEPT ![i].timer = "fired"]
    /\ exit' = [exited |-> TRUE, code |-> 1, by |-> "timer", of |-> i]
    /\ UNCHANGED server
    /\ UNCHANGED <<bindVars, clientVars, jwtVars, httpVars>>

ProcNext ==
    \/ \E sig \in {"SIGINT", "SIGTERM"} : OnSignal(sig)
    \/ \E truthy \in BOOLEAN : OnUncaughtException(truthy)
    \/ OnUnhandledRejection
    \/ \E err \in BOOLEAN : ShutdownWithoutServer(err)
    \/ ConnectionOpens
    \/ ConnectionEnds
    \/ ServerCloses
    \/ \E i \in 1..MaxShutdowns : TimerFires(i)

SpecShutdown == ProcInit /\ [][ProcNext]_vars

(***************************************************************************)
(* What binding is required to produce, stated over the placeholder        *)
(* occurrences of the template instead of a left-to-right rewriting.       *)
(***************************************************************************)
\* the positions where a placeholder token starts
MatchStarts(q) == {i \in 1..Len(q) : MatchAt(q, i)}

KeyAt(q, i) == SubSeq(q, i + 1, MatchEnd(q, i))

\* the placeholder occurrences whose identifier PgSQLClient.formatQuery finds in vals
SubstPg(q, vals) ==
    IF Falsy(vals) THEN {} ELSE {i \in MatchStarts(q) : HasProperty(vals, KeyAt(q, i))}

\* the placeholder occurrences whose identifier is a key of the parameter set
SubstOwn(q, vals) ==
    IF Falsy(vals) THEN {} ELSE {i \in MatchStarts(q) : KeyAt(q, i) \in OwnKeys(vals)}

KeysOf(q, S) == {KeyAt(q, i) : i \in S}

FirstPos(q, S, k) == CHOOSE i \in S : KeyAt(q, i) = k /\ \A j \in S : KeyAt(q, j) = k => i <= j

\* the marker number of identifier k: its rank in first-occurrence order
MarkerNo(q, S, k) ==
    Cardinality({k2 \in KeysOf(q, S) : FirstPos(q, S, k2) <= FirstPos(q, S, k)})

\* the template with the occurrences in S replaced by their markers
RECURSIVE ExpectedPositional(_, _, _)
ExpectedPositional(q, S, i) ==
    IF i > Len(q) THEN <<>>
    ELSE IF i \in S
         THEN <<"$">> \o ToDecimal(MarkerNo(q, S, KeyAt(q, i)))
              \o ExpectedPositional(q, S, MatchEnd(q, i) + 1)
         ELSE <<q[i]>> \o ExpectedPositional(q, S, i + 1)

\* the template with the occurrences in S replaced by their escaped values
RECURSIVE ExpectedInline(_, _, _, _)
ExpectedInline(q, vals, S, i) ==
    IF i > Len(q) THEN <<>>
    ELSE IF i \in S
         THEN Escape(Get(vals, KeyAt(q, i))) \o ExpectedInline(q, vals, S, MatchEnd(q, i) + 1)
         ELSE <<q[i]>> \o ExpectedInline(q, vals, S, i + 1)

SameKeys(p1, p2) == p1.absent = p2.absent /\ OwnKeys(p1) = OwnKeys(p2)

(***************************************************************************)
(* C1.  Positional binding: every distinct substituted identifier gets the *)
(* next marker number ($1, $2, ... without gaps) at its first occurrence   *)
(* from the left, later occurrences reuse it, and the value list holds     *)
(* exactly one entry per distinct substituted identifier, entry i being    *)
(* the parameter value of the identifier that owns marker $i.              *)
(***************************************************************************)
C1_PositionalMarkers ==
    pgOut.called =>
        LET S == SubstPg(query, values)
            K == KeysOf(query, S)
        IN  /\ pgOut.text = ExpectedPositional(query, S, 1)
            /\ Len(pgOut.values) = Cardinality(K)
            /\ \A k \in K : pgOut.values[MarkerNo(query, S, k)] = Get(values, k)

\* ":a:b:a"-like case: two distinct bound identifiers, the first one repeated
C1_Witness ==
    /\ pgOut.called
    /\ query = <<":", "b", ":", "a", ":", "b">>
    /\ values = Obj([k \in OwnKeyPool |-> IF k = <<"a">> THEN NumV(1) ELSE NumV(2)])
    /\ pgOut.text = <<"$", "1", "$", "2", "$", "1">>
    /\ pgOut.values = <<NumV(2), NumV(1)>>

(***************************************************************************)
(* C2.  In both dialects a :identifier token whose identifier is not a key *)
(* of the parameter set stays verbatim in the output and adds no value;    *)
(* only the identifiers present in the parameter set are substituted.      *)
(***************************************************************************)
C2_OnlyOwnKeysSubstituted ==
    LET S == SubstOwn(query, values)
    IN  /\ pgOut.called =>
              /\ pgOut.text = ExpectedPositional(query, S, 1)
              /\ Len(pgOut.values) = Cardinality(KeysOf(query, S))
        /\ myOut.called => myOut.text = ExpectedInline(query, values, S, 1)

(***************************************************************************)
(* C3.  Positional binding never puts a caller-supplied value in the query *)
(* text: two parameter sets with the same keys and any values give the     *)
(* same text for the same template; the values travel in the value list.   *)
(***************************************************************************)
C3_TextIndependentOfValues ==
    pgOut.called =>
        \A p2 \in ParamSets :
            SameKeys(values, p2) =>
                /\ formatQuery(query, p2).text = pgOut.text
                /\ Len(formatQuery(query, p2).values) = Len(pgOut.values)

C3_Witness ==
    /\ pgOut.called
    /\ query = <<"a", ":", "a", ":", "b">>
    /\ OwnKeys(values) = OwnKeyPool
    /\ pgOut.values = <<NumV(1), NumV(2)>>
    /\ \E p2 \in ParamSets :
           /\ SameKeys(values, p2)
           /\ formatQuery(query, p2).values = <<NumV(2), NumV(1)>>
           /\ formatQuery(query, p2).text = pgOut.text

(***************************************************************************)
(* C4.  bind returns the template unchanged with an empty value list when  *)
(* the template has no placeholder (any parameter set) or the parameter    *)
(* set is absent or empty (any template).                                  *)
(***************************************************************************)
C4_UnchangedWithoutPlaceholdersOrParams ==
    (MatchStarts(query) = {} \/ Falsy(values) \/ OwnKeys(values) = {}) =>
        /\ pgOut.called => (pgOut.text = query /\ pgOut.values = <<>>)
        /\ myOut.called => myOut.text = query

(***************************************************************************)
(* C5.  A non-pooled client opens its connection lazily and once: over any *)
(* sequence of query() calls, overlapping ones included, connect() is      *)
(* invoked at most once and never before the first query().  (Stated for   *)
(* runs in which no close() was called and no connect() has failed.)       *)
(***************************************************************************)
C5_ConnectAtMostOnce ==
    (dialect = "pg" /\ ~usePool /\ ~conn.endCalled /\ ~conn.connectFailed) =>
        /\ conn.connectCalls <= 1
        /\ conn.connectCalls > 0 => conn.queryIssued

C6_Step ==
    \A c \in 1..MaxCalls :
        /\ (dialect = "pg" /\ calls[c].pc = "awaitEnd" /\ calls'[c].pc = "resolved")
               => ~connected'
        /\ ( /\ calls[c].pc = "idle"
             /\ calls'[c].op = "query"
             /\ calls'[c].afterClose
             /\ ~ValidateThrows(calls'[c].sql) )
               => \/ calls'[c].pc = "awaitConnect" /\ conn'.connectCalls = conn.connectCalls + 1
                  \/ calls'[c].pc = "awaitQuery" /\ calls'[c].sent
        /\ ( /\ calls[c].op = "query"
             /\ calls[c].afterClose
             /\ calls[c].pc \in {"awaitConnect", "awaitQuery"}
             /\ calls'[c].pc = "rejected" )
               => calls'[c].err \in {NativeError("connect"), NativeError("query")}

RejectedByValidate(call) ==
    call.pc = "rejected" /\ call.err.kind = "Error" /\ ~call.sent

C9_RoundTrip ==
    ( /\ verdict.path # "none"
      /\ verdict.presented = "issued"
      /\ verdict.path = issuedFrom.type
      /\ verdict.at = issuedFrom.doneAt
      /\ JsonExact(issuedFrom.data) ) =>
        /\ verdict.ok
        /\ verdict.payload.data = issuedFrom.data
        /\ verdict.payload.type = verdict.path

(***************************************************************************)
(* C10.  As claimed: for every configuration an access token is rejected   *)
(* by verifyRefreshToken and a refresh token by verifyAccessToken.         *)
(***************************************************************************)
CrossVerified ==
    verdict.path # "none" /\ verdict.presented = "issued" /\ verdict.path # issuedFrom.type

C10_CrossUseRejected == CrossVerified => ~verdict.ok

(***************************************************************************)
(* C10, amended.  When the access secret and the refresh secret differ, a  *)
(* token of one class is rejected by the other class's verification, with  *)
(* a signature error and without any decoded data.                         *)
(***************************************************************************)
C10_CrossUseRejectedWithDistinctSecrets ==
    (cfg.accessSecret # cfg.refreshSecret /\ CrossVerified) =>
        /\ ~verdict.ok
        /\ verdict.error = "invalid signature"
        /\ verdict.payload = NoToken.payload

\* an access token that its own path accepts at this moment is refused by
\* verifyRefreshToken
C10_Witness ==
    /\ cfg.accessSecret # cfg.refreshSecret
    /\ issuedFrom.type = "access"
    /\ verdict.presented = "issued"
    /\ verdict.path = "refresh"
    /\ ~verdict.ok
    /\ verdict.code = "ER_INVALID_REFRESH_TOKEN"
    /\ JwtVerifyError(token, cfg.accessSecret, verdict.at) = ""

(***************************************************************************)
(* The lifetime a configuration asks for, in whole seconds: a duration     *)
(* string as the ms package reads it, a number as milliseconds.            *)
(***************************************************************************)
ResolvedSeconds(val) ==
    IF val.t = "number" THEN val.n \div 1000
    ELSE IF Ms(val).t = "number" THEN Ms(val).n \div 1000
    ELSE 0

LifetimeOf(type) ==
    ResolvedSeconds(IF type = "access" THEN cfg.accessExpiresIn ELSE cfg.refreshExpiresIn)

\* the last verify...Token call was handed the token issued last, on the path
\* of the token's own class
OwnPathVerified ==
    verdict.path # "none" /\ verdict.presented = "issued" /\ verdict.path = issuedFrom.type

(***************************************************************************)
(* C11.  A token verified by its own class's path at a time later than its *)
(* issued-at claim plus its configured lifetime (compared in whole         *)
(* seconds, as the token's claims are) is rejected, with the expiry error. *)
(***************************************************************************)
C11_RejectedAfterLifetime ==
    ( /\ OwnPathVerified
      /\ Unix(verdict.at) > token.payload.iat + LifetimeOf(issuedFrom.type) ) =>
        /\ ~verdict.ok
        /\ verdict.error = "jwt expired"

(***************************************************************************)
(* C12.  Whatever is handed to it (an issued token, a tampered one, a      *)
(* malformed string) and whenever, a verify...Token call resolves exactly  *)
(* when jwt.verify reports no error, and then with the claim set of the    *)
(* verified token.  Otherwise it rejects: verifyAccessToken with code      *)
(* ER_INVALID_ACCESS_TOKEN, verifyRefreshToken with code                   *)
(* ER_INVALID_REFRESH_TOKEN, each with the error of jwt.verify as its      *)
(* error field and without any decoded token data.                         *)
(***************************************************************************)
SecretOf(path) == IF path = "access" THEN cfg.accessSecret ELSE cfg.refreshSecret

C12_RejectsWithClassCodeAndCause ==
    verdict.path # "none" =>
        LET e == JwtVerifyError(Presented(verdict.presented), SecretOf(verdict.path), verdict.at)
        IN  /\ verdict.ok <=> e = ""
            /\ verdict.ok =>
                   /\ verdict.payload = token.payload
                   /\ verdict.presented = "issued"
                   /\ SignatureValid(token, SecretOf(verdict.path))
                   /\ token.payload.nbf <= Unix(verdict.at)
                   /\ Unix(verdict.at) < token.payload.exp
            /\ ~verdict.ok =>
                   /\ verdict.code = (IF verdict.path = "access"
                                      THEN "ER_INVALID_ACCESS_TOKEN"
                                      ELSE "ER_INVALID_REFRESH_TOKEN")
                   /\ verdict.error = e
                   /\ verdict.error \in {"jwt malformed", "invalid signature",
                                         "jwt not active", "jwt expired"}
                   /\ verdict.payload = NoToken.payload

\* a tampered access token, whose payload would read as unexpired, was
\* rejected by verifyAccessToken for its signature
C12_Witness ==
    /\ issuedFrom.type = "access"
    /\ verdict.path = "access"
    /\ verdict.presented = "tampered"
    /\ ~verdict.ok
    /\ verdict.error = "invalid signature"
    /\ verdict.code = "ER_INVALID_ACCESS_TOKEN"
    /\ Unix(verdict.at) < Tamper(token).payload.exp
    /\ token.payload.data = NumberV(123)

(***************************************************************************)
(* C13.  Every issued token has nbf = iat and exp = iat + the lifetime of  *)
(* its class in seconds, however the clock advances while the token is     *)
(* built.  (Stated for lifetimes configured as duration strings.)          *)
(***************************************************************************)
ConfiguredLifetime(type) ==
    IF type = "access" THEN cfg.accessExpiresIn ELSE cfg.refreshExpiresIn

C13_ExpIsIatPlusLifetime ==
    (token # NoToken /\ ConfiguredLifetime(token.payload.type).t = "string") =>
        /\ token.payload.nbf = token.payload.iat
        /\ token.payload.exp = token.payload.iat + LifetimeOf(token.payload.type)

(***************************************************************************)
(* C14.  No two issuance calls of one process, access or refresh in any    *)
(* order, get the same token identifier: the identifiers uuid() has        *)
(* returned are pairwise distinct, and each issued token carries the one   *)
(* made for it.                                                            *)
(***************************************************************************)
C14_DistinctTokenIds ==
    /\ \A i, j \in 1..Len(jtis) : i # j => jtis[i] # jtis[j]
    /\ Len(jtis) = issues
    /\ gen.pc = "based" => gen.base.jti = jtis[Len(jtis)]
    /\ (token # NoToken /\ gen.pc = "idle") => token.payload.jti = jtis[Len(jtis)]

\* two tokens issued within the same millisecond: their identifiers differ by
\* the counter alone
C14_Witness ==
    /\ Len(jtis) = 2
    /\ jtis[1].msecs = jtis[2].msecs
    /\ jtis[1].seq # jtis[2].seq
    /\ gen.pc = "idle"
    /\ token.payload.jti = jtis[2]
    /\ token.payload.iat = Unix(jtis[1].msecs)
    /\ token.payload.data = NumberV(123)

(***************************************************************************)
(* C15.  As claimed: asyncHandler(fn) forwards every failure of fn to      *)
(* next(): when the promise fn returned rejects, and when fn throws, the   *)
(* wrapper calls next exactly once, with that error; when fn completes     *)
(* successfully the wrapper does not call next.                            *)
(***************************************************************************)
Fails(fn) == fn.sync = "throws" \/ fn.settles = "rejects"

\* the errors the wrapper called next with
ByWrapper(call) == call.by = "asyncHandler"

NextsByWrapper(rq) ==
    LET own == SelectSeq(rq.nexts, ByWrapper)
    IN  [i \in 1..Len(own) |-> own[i].err]

WentThroughWrapper(rq) == rq.pc = "done" /\ rq.fn # NoHandler

Unrouted(rq) ==
    rq.via = "app" /\ rq.path # "/api-docs/" /\ RouteOf(rq.path, FALSE) = NoHandler

C16_NotFoundEnvelope ==
    \A r \in 1..MaxRequests :
        (requests[r].pc = "done" /\ Unrouted(requests[r])) =>
            /\ requests[r].res.sent
            /\ requests[r].res.status = 404
            /\ <<"success", "false">> \in requests[r].res.body

(***************************************************************************)
(* C17.  After shutdown(server, err) was called with a server, the process *)
(* exits with code 0 when server.close completes before the 10-second      *)
(* timer and no err was given, with code 1 when server.close completes     *)
(* first and err was given, and with code 1 when the timer fires first;    *)
(* shutdown with a missing server does nothing.  (The exit codes and the   *)
(* missing server; stated of every invocation.)                            *)
(***************************************************************************)
WithServer == {i \in 1..Len(shutdowns) : shutdowns[i].server}

C17_ExitCodeFollowsErr ==
    /\ exit.exited =>
           /\ WithServer # {}
           /\ exit.by = "timer" =>
                  (exit.code = 1 /\ shutdowns[exit.of].delay = 10000)
           /\ exit.by = "close" =>
                  \A i \in WithServer : exit.code = (IF shutdowns[i].err THEN 1 ELSE 0)
    /\ WithServer = {} => (~exit.exited /\ server.state = "listening")
    /\ \A i \in 1..Len(shutdowns) : ~shutdowns[i].server => shutdowns[i].timer = "none"

(***************************************************************************)
(* C18.  When shutdown was invoked more than once before the process       *)
(* exited and at least one invocation carried an error, the process exits  *)
(* with code 1, never 0.                                                   *)
(***************************************************************************)
C18_RepeatedShutdownExitsOne ==
    ( /\ exit.exited
      /\ Cardinality(WithServer) > 1
      /\ \E i \in WithServer : shutdowns[i].err ) =>
        exit.code = 1

(***************************************************************************)
(* C19.  As claimed: in the non-pooled Postgres client, whatever the       *)
(* interleaving of query() and close() calls, the connected flag is true   *)
(* only if a connect() has resolved and no end() has been issued since; a  *)
(* query() whose connect() failed rejects with the driver's error and its  *)
(* statement is not sent; a pooled client never calls connect() and its    *)
(* flag is never true.                                                     *)
(***************************************************************************)
ConnectFailedCall(call) ==
    call.op = "query" /\ call.pc = "rejected" /\ call.err = NativeError("connect")

FailedConnectSendsNothing ==
    \A c \in 1..MaxCalls :
        ConnectFailedCall(calls[c]) => (~calls[c].sent /\ conn.connectFailed)

PooledNeverConnects ==
    usePool =>
        /\ ~connected
        /\ conn.connectCalls = 0
        /\ \A c \in 1..MaxCalls : calls[c].pc # "awaitConnect"

C19_FlagOnlyWhileNoEndIssued ==
    dialect = "pg" =>
        /\ (~usePool /\ connected) => (conn.connectOk /\ ~conn.endIssuedSince)
        /\ FailedConnectSendsNothing
        /\ PooledNeverConnects

(***************************************************************************)
(* C19, amended.  In the non-pooled Postgres client the connected flag is  *)
(* true exactly when a connect() has resolved and no end() has resolved    *)
(* since: it stays true while an end() is in flight and after an end()     *)
(* that rejects.  A connect() that fails leaves the flag as it was, the    *)
(* query() rejects with the driver's error and its statement is not sent;  *)
(* a pooled client never calls connect() and its flag is never true.       *)
(***************************************************************************)
C19_Step ==
    \A c \in 1..MaxCalls :
        (calls[c].pc = "awaitConnect" /\ ConnectFailedCall(calls'[c])) =>
            (connected' = connected /\ ~calls'[c].sent)

C19_Inv ==
    dialect = "pg" =>
        /\ ~usePool => (connected <=> (conn.connectOk /\ ~conn.endedSince))
        /\ FailedConnectSendsNothing
        /\ PooledNeverConnects

C19_FlagUntilEndResolves == []C19_Inv /\ [][C19_Step]_vars

\* the flag is still true although close() has issued end(), and a query()
\* of the same run failed at connect()
C19_Witness ==
    /\ dialect = "pg" /\ ~usePool
    /\ connected
    /\ conn.endIssuedSince
    /\ \E c, d \in 1..MaxCalls :
           /\ calls[c].op = "close" /\ calls[c].pc = "rejected"
           /\ ConnectFailedCall(calls[d])

(***************************************************************************)
(* C20.  The two dialects agree on which placeholder occurrences are       *)
(* substituted: for every template and every parameter object, the         *)
(* occurrences replaced by MySQLClient.customQueryFormat are the ones      *)
(* replaced by PgSQLClient.formatQuery, identifiers that the parameter     *)
(* object only inherits included.  (Read off the two outputs: one set of   *)
(* occurrences accounts for both texts.)                                   *)
(***************************************************************************)
C20_DialectsReplaceSameOccurrences ==
    (pgOut.called /\ myOut.called) =>
        \E S \in SUBSET MatchStarts(query) :
            /\ pgOut.text = ExpectedPositional(query, S, 1)
            /\ myOut.text = ExpectedInline(query, values, S, 1)

(***************************************************************************)
(* C21.  For every error object that reaches an error handler, whatever    *)
(* its status and code fields hold (string codes included), the handler    *)
(* sends a response with a numeric HTTP status in the 4xx/5xx range, whose *)
(* body is the envelope {success: false, error, code, data} with code      *)
(* equal to that status and error the fixed text 'Internal server error'.  *)
(***************************************************************************)
ErrorEnvelope(status) ==
    {<<"success", "false">>, <<"error", "Internal server error">>,
     <<"code", ToString(status)>>, <<"data", "null">>}

AnswersWithEnvelope(out) ==
    /\ out.threw = ""
    /\ out.res.sent
    /\ out.res.status \in 400..599
    /\ out.res.body = ErrorEnvelope(out.res.status)

C21_ErrorHandlerSendsEnvelope ==
    /\ handled.central.called => AnswersWithEnvelope(handled.central)
    /\ handled.inline.called => AnswersWithEnvelope(handled.inline)

=============================================================================
